---- MODULE Spec2Model ----
(***************************************************************************)
(* Model of the health-profile store (health_config.py): HealthProfile,    *)
(* its load/merge/save/update operations, the profile summary and the diet *)
(* compatibility analyzer.                                                 *)
(*                                                                         *)
(* Representation of Python/JSON values.  A dict is a TLA+ record keyed by *)
(* its (string) keys.  Every non-dict value is a one-field record whose    *)
(* field name is its type tag: None, Num(n), Str(s), List(l).  This lets   *)
(* isinstance(v, dict) be decided (IsDict) and lets values of different    *)
(* types be compared.  Numbers: height_cm and weight_kg are whole          *)
(* centimetres / kilograms, bmi is held in hundredths (24.22 is 2422),     *)
(* water_intake_goal_liters in tenths, datetime.now() is an integer clock. *)
(* Free text that is matched by substring (foods, allergies, restrictions) *)
(* is a sequence of one-character strings.                                 *)
(***************************************************************************)
EXTENDS Integers, Sequences, FiniteSets, TLC

VARIABLES
    pc,          \* "new" before HealthProfile.__init__ has run, "ready" after
    profile,     \* self.profile
    file,        \* what is stored at self.config_file
    clock,       \* the next value datetime.now() returns
    call,        \* the last call made on the object: its name, arguments, persist outcome
    ret,         \* how the last call ended and what it returned
    saves,       \* number of save_profile calls made so far
    updates,     \* number of update_* calls made so far
    lastSuccess, \* last_updated stamp of the most recent persist that succeeded
    chat_history,          \* st.session_state.chat_history
    current_conversation   \* st.session_state.current_conversation

vars == <<pc, profile, file, clock, call, ret, saves, updates, lastSuccess,
          chat_history, current_conversation>>

----------------------------------------------------------------------------
(* Values *)

None == [null |-> TRUE]
Num(n) == [num |-> n]
Str(s) == [str |-> s]
List(l) == [list |-> l]

LeafTags == {"null", "num", "str", "list"}

\* isinstance(v, dict)
IsDict(v) == DOMAIN v \cap LeafTags = {}

\* Python truthiness of a value: None, 0, "" and [] are falsy
Truthy(v) ==
    IF IsDict(v) THEN DOMAIN v # {}
    ELSE IF "null" \in DOMAIN v THEN FALSE
    ELSE IF "num" \in DOMAIN v THEN v.num # 0
    ELSE IF "str" \in DOMAIN v THEN v.str # ""
    ELSE v.list # <<>>

----------------------------------------------------------------------------
(* HealthProfile.load_profile and _merge_dicts *)

default_profile ==
    [personal_info |->
        [age |-> None, gender |-> None, height_cm |-> None, weight_kg |-> None],
     medical_history |->
        [allergies |-> List(<<>>), chronic_conditions |-> List(<<>>),
         medications |-> List(<<>>), dietary_restrictions |-> List(<<>>)],
     health_goals |->
        [weight_goal |-> None, activity_level |-> Str("moderate"),
         primary_goal |-> Str("maintain_health")],
     diet_preferences |->
        [preferred_cuisines |-> List(<<>>), meal_frequency |-> Num(3),
         water_intake_goal_liters |-> Num(25)],
     health_metrics |->
        [bmi |-> None, last_updated |-> None]]

\* Keys of user that default does not have are dropped; a key of default that
\* user has is merged when both values are dicts and replaced otherwise.
RECURSIVE merge_dicts(_, _)
merge_dicts(default, user) ==
    [key \in DOMAIN default |->
        IF key \in DOMAIN user
        THEN IF IsDict(default[key]) /\ IsDict(user[key])
             THEN merge_dicts(default[key], user[key])
             ELSE user[key]
        ELSE default[key]]

\* The body of the try block of load_profile: the value it returns, or that
\* it raised.  f.kind is "absent" (os.path.exists is false), "unreadable"
\* (open raises), "invalid" (json.load raises) or "json" (f.doc was parsed);
\* a parsed value that is no dict has no .items(), so _merge_dicts raises.
load_try(f) ==
    IF f.kind = "absent" THEN [raised |-> FALSE, value |-> default_profile]
    ELSE IF f.kind \in {"unreadable", "invalid"} THEN [raised |-> TRUE, value |-> None]
    ELSE IF ~IsDict(f.doc) THEN [raised |-> TRUE, value |-> None]
    ELSE [raised |-> FALSE, value |-> merge_dicts(default_profile, f.doc)]

\* load_profile without its except clause
load_profile_no_except(f) ==
    LET r == load_try(f) IN
    IF r.raised THEN [raised |-> TRUE, value |-> IF f.kind = "json" THEN f.doc ELSE None]
    ELSE r

load_profile(f) ==
    LET r == load_try(f) IN
    IF r.raised THEN [raised |-> FALSE, value |-> default_profile]
    ELSE r

----------------------------------------------------------------------------
(* Persisted documents *)

Absent == [absent |-> TRUE]

Restrict(r, K) == [k \in K |-> r[k]]

\* A JSON object with the sections that are present in choice c
DocOf(c) == [k \in {s \in DOMAIN c : c[s] # Absent} |-> c[k]]

Text1 == <<"n", "u", "t">>
Text2 == <<"v", "e", "g">>

PersistedPersonal ==
    [age |-> Num(30), gender |-> Str("Female"), height_cm |-> Num(160), weight_kg |-> Num(40)]

PersistedMedical ==
    [allergies |-> List(<<Text1>>), chronic_conditions |-> List(<<Text2>>),
     medications |-> List(<<Text1, Text2>>), dietary_restrictions |-> List(<<Text2>>)]

\* Documents a load may find: any subset of the sections, a section holding
\* any subset of its leaves or JSON null, and a key the schema does not have.
LoadDocs ==
    { DocOf([personal_info |-> a, medical_history |-> b, health_goals |-> c,
             diet_preferences |-> d, health_metrics |-> e, schema_version |-> x]) :
        a \in {Absent, None} \cup
              {Restrict(PersistedPersonal, K) : K \in SUBSET DOMAIN PersistedPersonal},
        b \in {Absent, None, PersistedMedical,
               Restrict(PersistedMedical, {"allergies"})},
        c \in {Absent, [weight_goal |-> Num(65)],
               [activity_level |-> Str("active"), primary_goal |-> Str("lose_weight")]},
        d \in {Absent, [meal_frequency |-> Num(5)]},
        e \in {Absent, None, [bmi |-> Num(1562)],
               [bmi |-> Num(1562), last_updated |-> Num(0)]},
        x \in {Absent, Num(1)} }

LoadFiles ==
    {[kind |-> k, doc |-> None] : k \in {"absent", "unreadable", "invalid"}}
    \cup {[kind |-> "json", doc |-> v] : v \in {None, List(<<>>), Num(7)}}
    \cup {[kind |-> "json", doc |-> v] : v \in LoadDocs}

----------------------------------------------------------------------------
(* HealthProfile.__init__ *)

NoCall == [op |-> "none"]

Construct ==
    /\ pc = "new"
    /\ LET r == load_profile(file) IN
        /\ pc' = "ready"
        /\ profile' = r.value
        /\ call' = [op |-> "__init__"]
        /\ ret' = [raised |-> r.raised, value |-> None]
        /\ lastSuccess' = IF r.raised \/ ~IsDict(r.value) \/ ~IsDict(r.value.health_metrics)
                          THEN None ELSE r.value.health_metrics.last_updated
    /\ UNCHANGED <<file, clock, saves, updates, chat_history, current_conversation>>

InitLoad ==
    /\ pc = "new"
    /\ profile = None
    /\ file \in LoadFiles
    /\ clock = 1
    /\ call = NoCall
    /\ ret = [raised |-> FALSE, value |-> None]
    /\ saves = 0
    /\ updates = 0
    /\ lastSuccess = None
    /\ chat_history = <<>>
    /\ current_conversation = <<>>

NextLoad == Construct

SpecLoad == InitLoad /\ [][NextLoad]_vars

----------------------------------------------------------------------------
(* HealthProfile._calculate_bmi *)

\* n/d rounded to the nearest integer, a tie going to the even neighbour.
\* The source rounds a float: an exact tie is decided there by the error of
\* the float division, which on the heights and weights used here gives the
\* same result.
RoundHalfEven(n, d) ==
    LET q == n \div d
        r == n % d
    IN  IF 2 * r < d THEN q
        ELSE IF 2 * r > d THEN q + 1
        ELSE IF q % 2 = 0 THEN q ELSE q + 1

\* round(weight / (height / 100) ** 2, 2), in hundredths
bmi_of(height, weight) == RoundHalfEven(weight * 1000000, height * height)

calculate_bmi(p) ==
    LET height == p.personal_info.height_cm
        weight == p.personal_info.weight_kg
    IN  IF Truthy(height) /\ Truthy(weight)
        THEN [p EXCEPT !.health_metrics.bmi = Num(bmi_of(height.num, weight.num))]
        ELSE p

----------------------------------------------------------------------------
(* HealthProfile.save_profile *)

PersistOutcomes == {"ok", "open_failed", "write_failed"}

\* save_profile that lets the exception of a failed write reach the caller
save_profile_raising(p, f, now, outcome) ==
    LET stamped == [p EXCEPT !.health_metrics.last_updated = Num(now)] IN
    IF outcome = "ok"
    THEN [profile |-> stamped, file |-> [kind |-> "json", doc |-> stamped], raised |-> FALSE]
    ELSE IF outcome = "open_failed"
    THEN [profile |-> stamped, file |-> f, raised |-> TRUE]
    ELSE [profile |-> stamped, file |-> [kind |-> "invalid", doc |-> None], raised |-> TRUE]

\* save_profile that writes the record and stamps last_updated afterwards
save_profile_stamp_after(p, f, now, outcome) ==
    LET stamped == [p EXCEPT !.health_metrics.last_updated = Num(now)] IN
    IF outcome = "ok"
    THEN [profile |-> stamped, file |-> [kind |-> "json", doc |-> p], raised |-> FALSE]
    ELSE IF outcome = "open_failed"
    THEN [profile |-> p, file |-> f, raised |-> FALSE]
    ELSE [profile |-> p, file |-> [kind |-> "invalid", doc |-> None], raised |-> FALSE]

\* last_updated is stamped first; then open(config_file, 'w') either raises
\* (the file is left as it was), or truncates the file and json.dump either
\* writes the whole record or raises part-way (the file is no valid JSON).
\* The except clause swallows the exception.
save_profile(p, f, now, outcome) ==
    LET stamped == [p EXCEPT !.health_metrics.last_updated = Num(now)] IN
    IF outcome = "ok"
    THEN [profile |-> stamped, file |-> [kind |-> "json", doc |-> stamped], raised |-> FALSE]
    ELSE IF outcome = "open_failed"
    THEN [profile |-> stamped, file |-> f, raised |-> FALSE]
    ELSE [profile |-> stamped, file |-> [kind |-> "invalid", doc |-> None], raised |-> FALSE]

----------------------------------------------------------------------------
(* The update operations *)

MaxUpdates == 2

\* "if x: section[leaf] = x": a provided but falsy argument is ignored
set_fields_truthy(p, section, args) ==
    [p EXCEPT ![section] =
        [leaf \in DOMAIN @ |->
            IF leaf \in DOMAIN args /\ Truthy(args[leaf]) THEN args[leaf] ELSE @[leaf]]]

\* "if x is not None: section[leaf] = x" for every leaf of args
set_fields(p, section, args) ==
    [p EXCEPT ![section] =
        [leaf \in DOMAIN @ |->
            IF leaf \in DOMAIN args /\ args[leaf] # None THEN args[leaf] ELSE @[leaf]]]

Finish(op, args, outcome, s) ==
    /\ profile' = s.profile
    /\ file' = s.file
    /\ clock' = clock + 1
    /\ call' = [op |-> op, args |-> args, persist |-> outcome]
    /\ ret' = [raised |-> s.raised, value |-> None]
    /\ saves' = saves + 1
    /\ updates' = updates + 1
    /\ lastSuccess' = IF outcome = "ok" /\ ~s.raised THEN Num(clock) ELSE lastSuccess
    /\ UNCHANGED <<pc, chat_history, current_conversation>>

update_personal_info(age, gender, height_cm, weight_kg, outcome) ==
    /\ pc = "ready"
    /\ updates < MaxUpdates
    /\ LET args == [age |-> age, gender |-> gender,
                    height_cm |-> height_cm, weight_kg |-> weight_kg]
           p1 == set_fields(profile, "personal_info", args)
           p2 == calculate_bmi(p1)
       IN  Finish("update_personal_info", args, outcome,
                  save_profile(p2, file, clock, outcome))

update_medical_history(allergies, chronic_conditions, medications, dietary_restrictions, outcome) ==
    /\ pc = "ready"
    /\ updates < MaxUpdates
    /\ LET args == [allergies |-> allergies, chronic_conditions |-> chronic_conditions,
                    medications |-> medications,
                    dietary_restrictions |-> dietary_restrictions]
           p1 == set_fields(profile, "medical_history", args)
       IN  Finish("update_medical_history", args, outcome,
                  save_profile(p1, file, clock, outcome))

update_health_goals(weight_goal, activity_level, primary_goal, outcome) ==
    /\ pc = "ready"
    /\ updates < MaxUpdates
    /\ LET args == [weight_goal |-> weight_goal, activity_level |-> activity_level,
                    primary_goal |-> primary_goal]
           p1 == set_fields(profile, "health_goals", args)
       IN  Finish("update_health_goals", args, outcome,
                  save_profile(p1, file, clock, outcome))

----------------------------------------------------------------------------
(* HealthProfile.get_profile_summary *)

Line(label, v) == [label |-> label, value |-> v]

Opt(cond, line) == IF cond THEN <<line>> ELSE <<>>

\* ', '.join(items)
RECURSIVE Join(_)
Join(items) ==
    IF items = <<>> THEN <<>>
    ELSE IF Len(items) = 1 THEN items[1]
    ELSE items[1] \o <<",", " ">> \o Join(Tail(items))

NoInformation == Str("No health information available")

\* A summary that leaves out the goal lines while they hold their defaults
get_profile_summary_no_defaults(p) ==
    LET info == p.personal_info
        medical == p.medical_history
        goals == p.health_goals
        metrics == p.health_metrics
        summary ==
            Opt(Truthy(info.age), Line("Age", info.age))
            \o Opt(Truthy(info.gender), Line("Gender", info.gender))
            \o Opt(Truthy(info.height_cm), Line("Height", info.height_cm))
            \o Opt(Truthy(info.weight_kg), Line("Weight", info.weight_kg))
            \o Opt(Truthy(metrics.bmi), Line("BMI", metrics.bmi))
            \o Opt(Truthy(medical.allergies),
                   Line("Allergies", Join(medical.allergies.list)))
            \o Opt(Truthy(medical.chronic_conditions),
                   Line("Chronic Conditions", Join(medical.chronic_conditions.list)))
            \o Opt(Truthy(medical.medications),
                   Line("Medications", Join(medical.medications.list)))
            \o Opt(Truthy(medical.dietary_restrictions),
                   Line("Dietary Restrictions", Join(medical.dietary_restrictions.list)))
            \o Opt(Truthy(goals.weight_goal), Line("Weight Goal", goals.weight_goal))
            \o Opt(goals.activity_level # default_profile.health_goals.activity_level,
                   Line("Activity Level", goals.activity_level))
            \o Opt(goals.primary_goal # default_profile.health_goals.primary_goal,
                   Line("Primary Goal", goals.primary_goal))
    IN  IF summary # <<>> THEN [lines |-> summary] ELSE NoInformation

\* The lines of the summary in the order they are appended ("\n".join), or
\* the sentinel when no line was appended
get_profile_summary(p) ==
    LET info == p.personal_info
        medical == p.medical_history
        goals == p.health_goals
        metrics == p.health_metrics
        summary ==
            Opt(Truthy(info.age), Line("Age", info.age))
            \o Opt(Truthy(info.gender), Line("Gender", info.gender))
            \o Opt(Truthy(info.height_cm), Line("Height", info.height_cm))
            \o Opt(Truthy(info.weight_kg), Line("Weight", info.weight_kg))
            \o Opt(Truthy(metrics.bmi), Line("BMI", metrics.bmi))
            \o Opt(Truthy(medical.allergies),
                   Line("Allergies", Join(medical.allergies.list)))
            \o Opt(Truthy(medical.chronic_conditions),
                   Line("Chronic Conditions", Join(medical.chronic_conditions.list)))
            \o Opt(Truthy(medical.medications),
                   Line("Medications", Join(medical.medications.list)))
            \o Opt(Truthy(medical.dietary_restrictions),
                   Line("Dietary Restrictions", Join(medical.dietary_restrictions.list)))
            \o Opt(Truthy(goals.weight_goal), Line("Weight Goal", goals.weight_goal))
            \o <<Line("Activity Level", goals.activity_level)>>
            \o <<Line("Primary Goal", goals.primary_goal)>>
    IN  IF summary # <<>> THEN [lines |-> summary] ELSE NoInformation

summary ==
    /\ pc = "ready"
    /\ call' = [op |-> "get_profile_summary"]
    /\ ret' = [raised |-> FALSE, value |-> get_profile_summary(profile)]
    /\ UNCHANGED <<pc, profile, file, clock, saves, updates, lastSuccess,
                   chat_history, current_conversation>>

----------------------------------------------------------------------------
(* analyze_diet_compatibility *)

\* str.lower() on the alphabet of the texts
LowerChar(c) == IF c = "A" THEN "a" ELSE IF c = "B" THEN "b" ELSE c

Lower(text) == [i \in 1..Len(text) |-> LowerChar(text[i])]

\* needle in hay
Contains(needle, hay) ==
    \E i \in 0..(Len(hay) - Len(needle)) : SubSeq(hay, i + 1, i + Len(needle)) = needle

\* The keyword tested against the lowercased food without being lowercased
Matches_no_lower(keyword, food_lower) == Contains(keyword, food_lower)

\* keyword.lower() in food_lower
Matches(keyword, food_lower) == Contains(Lower(keyword), food_lower)

\* The keyword the loop over keywords breaks at: the last one that matches
FirstMatch_last(keywords, food_lower) ==
    LET hits == {i \in 1..Len(keywords) : Matches(keywords[i], food_lower)}
    IN  IF hits = {} THEN 0 ELSE CHOOSE i \in hits : \A j \in hits : j <= i

\* The index of the keyword the loop over keywords breaks at, 0 when it ends
\* without a match
RECURSIVE FirstMatchFrom(_, _, _)
FirstMatchFrom(keywords, food_lower, i) ==
    IF i > Len(keywords) THEN 0
    ELSE IF Matches(keywords[i], food_lower) THEN i
    ELSE FirstMatchFrom(keywords, food_lower, i + 1)

FirstMatch(keywords, food_lower) == FirstMatchFrom(keywords, food_lower, 1)

Flag(food, note, what) == [food |-> food, note |-> note, what |-> what]

\* One iteration of the loop over food_items
analyze_food(analysis, food, allergies, restrictions) ==
    LET food_lower == Lower(food)
        a == FirstMatch(allergies, food_lower)
        r == FirstMatch(restrictions, food_lower)
    IN  [compatible_foods |->
            analysis.compatible_foods \o (IF a = 0 /\ r = 0 THEN <<food>> ELSE <<>>),
         restricted_foods |->
            analysis.restricted_foods \o
            (IF r # 0 THEN <<Flag(food, "Violates", restrictions[r])>> ELSE <<>>),
         allergen_warnings |->
            analysis.allergen_warnings \o
            (IF a # 0 THEN <<Flag(food, "Contains", allergies[a])>> ELSE <<>>),
         recommendations |-> analysis.recommendations]

RECURSIVE analyze_from(_, _, _, _, _)
analyze_from(analysis, food_items, i, allergies, restrictions) ==
    IF i > Len(food_items) THEN analysis
    ELSE analyze_from(analyze_food(analysis, food_items[i], allergies, restrictions),
                      food_items, i + 1, allergies, restrictions)

analyze_diet_compatibility(food_items, p) ==
    analyze_from([compatible_foods |-> <<>>, restricted_foods |-> <<>>,
                  allergen_warnings |-> <<>>, recommendations |-> <<>>],
                 food_items, 1,
                 p.medical_history.allergies.list,
                 p.medical_history.dietary_restrictions.list)

analyze(food_items) ==
    /\ pc = "ready"
    /\ call' = [op |-> "analyze_diet_compatibility", args |-> [food_items |-> food_items]]
    /\ ret' = [raised |-> FALSE, value |-> analyze_diet_compatibility(food_items, profile)]
    /\ UNCHANGED <<pc, profile, file, clock, saves, updates, lastSuccess,
                   chat_history, current_conversation>>

----------------------------------------------------------------------------
(* The session: a profile is constructed from the stored record, then       *)
(* updated and queried.                                                     *)

\* Arguments of the update calls (None: the parameter is omitted)
Ages == {None, Num(40)}
Genders == {None, Str("Male")}
Heights == {None, Num(170)}
Weights == {None, Num(70)}
AllergyLists == {None, List(<<>>), List(<<Text1>>)}
ConditionLists == {None, List(<<Text2>>)}
MedicationLists == {None, List(<<Text1>>)}
RestrictionLists == {None, List(<<Text2>>)}
WeightGoals == {None, Num(65)}
ActivityLevels == {None, Str("active")}
PrimaryGoals == {None, Str("lose_weight")}

\* Stored records of a session: written by an earlier session, or by an
\* older schema that lacks some keys
SessionDocs ==
    { DocOf([personal_info |-> a, health_metrics |-> e]) :
        a \in {Absent, PersistedPersonal,
               Restrict(PersistedPersonal, {"height_cm", "weight_kg"})},
        e \in {Absent, [bmi |-> Num(1562), last_updated |-> Num(0)]} }

SessionFiles ==
    {[kind |-> k, doc |-> None] : k \in {"absent", "invalid"}}
    \cup {[kind |-> "json", doc |-> v] : v \in SessionDocs}

Init ==
    /\ pc = "new"
    /\ profile = None
    /\ file \in SessionFiles
    /\ clock = 1
    /\ call = NoCall
    /\ ret = [raised |-> FALSE, value |-> None]
    /\ saves = 0
    /\ updates = 0
    /\ lastSuccess = None
    /\ chat_history = <<>>
    /\ current_conversation = <<>>

Next ==
    \/ Construct
    \/ \E age \in Ages, gender \in Genders, height_cm \in Heights,
          weight_kg \in Weights, outcome \in PersistOutcomes :
          update_personal_info(age, gender, height_cm, weight_kg, outcome)
    \/ \E allergies \in AllergyLists, chronic_conditions \in ConditionLists,
          medications \in MedicationLists, dietary_restrictions \in RestrictionLists,
          outcome \in PersistOutcomes :
          update_medical_history(allergies, chronic_conditions, medications,
                                 dietary_restrictions, outcome)
    \/ \E weight_goal \in WeightGoals, activity_level \in ActivityLevels,
          primary_goal \in PrimaryGoals, outcome \in PersistOutcomes :
          update_health_goals(weight_goal, activity_level, primary_goal, outcome)
    \/ summary

Spec == Init /\ [][Next]_vars

----------------------------------------------------------------------------
(* Round trip: while a session runs, a second HealthProfile is constructed  *)
(* from the same config_file.  ret.value is the record it holds.  The file  *)
(* holds the value json.load returns for the text json.dump wrote: for      *)
(* None, numbers, strings, lists of strings and string-keyed dicts, the     *)
(* only values a profile holds, that is the value that was dumped.          *)

reopen ==
    /\ pc = "ready"
    /\ call.op # "reopen"
    /\ call' = [op |-> "reopen", after |-> call]
    /\ ret' = load_profile(file)
    /\ UNCHANGED <<pc, profile, file, clock, saves, updates, lastSuccess,
                   chat_history, current_conversation>>

NextRoundTrip ==
    \/ Construct
    \/ \E age \in Ages, gender \in Genders, height_cm \in Heights,
          weight_kg \in Weights, outcome \in PersistOutcomes :
          update_personal_info(age, gender, height_cm, weight_kg, outcome)
    \/ \E allergies \in AllergyLists, chronic_conditions \in ConditionLists,
          medications \in MedicationLists, dietary_restrictions \in RestrictionLists,
          outcome \in PersistOutcomes :
          update_medical_history(allergies, chronic_conditions, medications,
                                 dietary_restrictions, outcome)
    \/ \E weight_goal \in WeightGoals, activity_level \in ActivityLevels,
          primary_goal \in PrimaryGoals, outcome \in PersistOutcomes :
          update_health_goals(weight_goal, activity_level, primary_goal, outcome)
    \/ reopen

SpecRoundTrip == Init /\ [][NextRoundTrip]_vars

----------------------------------------------------------------------------
(* Diet analysis: a fresh profile whose allergies and restrictions are set  *)
(* through update_medical_history, then food lists are analyzed.            *)

MaxFoods == 2
MaxKeywords == 2

SeqsUpTo(S, n) == UNION {[1..k -> S] : k \in 0..n}

FoodTexts == {<<"A", "b">>, <<"b", "a">>, <<"c">>}
KeywordTexts == {<<"a">>, <<"B">>, <<"a", "b">>}

InitDiet ==
    /\ pc = "ready"
    /\ profile = default_profile
    /\ file = [kind |-> "absent", doc |-> None]
    /\ clock = 1
    /\ call = [op |-> "__init__"]
    /\ ret = [raised |-> FALSE, value |-> None]
    /\ saves = 0
    /\ updates = 0
    /\ lastSuccess = None
    /\ chat_history = <<>>
    /\ current_conversation = <<>>

NextDiet ==
    \/ \E allergies \in SeqsUpTo(KeywordTexts, MaxKeywords),
          dietary_restrictions \in SeqsUpTo(KeywordTexts, MaxKeywords) :
          /\ updates = 0
          /\ update_medical_history(List(allergies), None, None,
                                    List(dietary_restrictions), "ok")
    \/ \E food_items \in SeqsUpTo(FoodTexts, MaxFoods) : analyze(food_items)

SpecDiet == InitDiet /\ [][NextDiet]_vars

----------------------------------------------------------------------------
(* health_assistant.py: the chat session.  A message is a record of role   *)
(* and content; contents are sequences of one-character strings.  The      *)
(* model's answer arrives as a stream of chunks; response is the sequence  *)
(* of chunks the stream delivered before it ended or raised.               *)

MaxMessages == 3
MaxSaved == 1

get_nutrition_prompt(p, user_query) ==
    [profile_summary |-> get_profile_summary(p), user_query |-> user_query]

NoChoices == [choices |-> <<>>]
Delta(content) == [choices |-> <<[delta |-> [content |-> content]]>>]

\* chunk.choices and chunk.choices[0].delta.content
HasContent(chunk) ==
    /\ chunk.choices # <<>>
    /\ LET content == chunk.choices[1].delta.content IN
        "str" \in DOMAIN content /\ content.str # <<>>

RECURSIVE full_response(_, _)
\* full_response after the first n chunks of the stream
full_response(response, n) ==
    IF n = 0 THEN <<>>
    ELSE IF HasContent(response[n])
    THEN full_response(response, n - 1) \o response[n].choices[1].delta.content.str
    ELSE full_response(response, n - 1)

\* chat turn that records what was streamed before the exception
chat_turn_keep_partial(conversation, user_input, response, outcome) ==
    LET asked == Append(conversation, [role |-> "user", content |-> user_input])
        answered == Append(asked, [role |-> "assistant",
                                   content |-> full_response(response, Len(response))]) IN
    IF outcome = "ok" THEN [conversation |-> answered, error |-> FALSE]
    ELSE IF outcome = "stream_failed" THEN [conversation |-> answered, error |-> TRUE]
    ELSE [conversation |-> asked, error |-> TRUE]

\* The user's message is appended before the try block; the assistant's
\* message is appended as the last statement of the try block, after the
\* stream has been read to its end; except Exception shows the error.
chat_turn(conversation, user_input, response, outcome) ==
    LET asked == Append(conversation, [role |-> "user", content |-> user_input]) IN
    IF outcome = "ok"
    THEN [conversation |-> Append(asked, [role |-> "assistant",
                                          content |-> full_response(response, Len(response))]),
          error |-> FALSE]
    ELSE [conversation |-> asked, error |-> TRUE]

\* outcome: "ok", or client.chat.completions.create raises, or iterating the
\* stream raises after the chunks in response
ChatOutcomes == {"ok", "create_failed", "stream_failed"}

chat(user_input, response, outcome) ==
    /\ pc = "ready"
    /\ user_input # <<>>
    /\ Len(current_conversation) + 2 <= MaxMessages
    /\ outcome = "create_failed" => response = <<>>
    /\ LET r == chat_turn(current_conversation, user_input, response, outcome) IN
        /\ current_conversation' = r.conversation
        /\ call' = [op |-> "chat",
                    messages |-> <<[role |-> "system",
                                    content |-> get_nutrition_prompt(profile, user_input)],
                                   [role |-> "user", content |-> user_input]>>,
                    outcome |-> outcome]
        /\ ret' = [raised |-> FALSE, value |-> None, error |-> r.error]
    /\ UNCHANGED <<pc, profile, file, clock, saves, updates, lastSuccess, chat_history>>

clear_conversation ==
    /\ pc = "ready"
    /\ current_conversation' = <<>>
    /\ call' = [op |-> "clear_conversation"]
    /\ ret' = [raised |-> FALSE, value |-> None]
    /\ UNCHANGED <<pc, profile, file, clock, saves, updates, lastSuccess, chat_history>>

save_conversation ==
    /\ pc = "ready"
    /\ current_conversation # <<>>
    /\ Len(chat_history) < MaxSaved
    /\ chat_history' = Append(chat_history, [timestamp |-> Num(clock),
                                             conversation |-> current_conversation])
    /\ clock' = clock + 1
    /\ call' = [op |-> "save_conversation"]
    /\ ret' = [raised |-> FALSE, value |-> None]
    /\ UNCHANGED <<pc, profile, file, saves, updates, lastSuccess, current_conversation>>

UserInputs == {<<"q">>, <<"r">>}

Streams ==
    {<<>>,
     <<Delta(Str(<<"h">>))>>,
     <<NoChoices, Delta(None), Delta(Str(<<>>)), Delta(Str(<<"h">>)), Delta(Str(<<"i">>))>>}

\* what a stream can have delivered when it ends or raises
Responses == UNION {{SubSeq(stream, 1, n) : n \in 0..Len(stream)} : stream \in Streams}

\* init_session_state: a HealthProfile with no stored record, no chats
InitChat ==
    /\ pc = "ready"
    /\ profile = default_profile
    /\ file = [kind |-> "absent", doc |-> None]
    /\ clock = 1
    /\ call = [op |-> "__init__"]
    /\ ret = [raised |-> FALSE, value |-> None]
    /\ saves = 0
    /\ updates = 0
    /\ lastSuccess = None
    /\ chat_history = <<>>
    /\ current_conversation = <<>>

NextChat ==
    \/ \E user_input \in UserInputs, response \in Responses, outcome \in ChatOutcomes :
          chat(user_input, response, outcome)
    \/ clear_conversation
    \/ save_conversation

SpecChat == InitChat /\ [][NextChat]_vars

----------------------------------------------------------------------------
(* Properties *)

UpdateOps == {"update_personal_info", "update_medical_history", "update_health_goals"}

SectionOf(op) ==
    IF op = "update_personal_info" THEN "personal_info"
    ELSE IF op = "update_medical_history" THEN "medical_history"
    ELSE "health_goals"

Abs(x) == IF x < 0 THEN -x ELSE x

\* b hundredths is w / (h/100)^2 rounded to two decimal places
IsRoundedBmi(b, h, w) == 2 * Abs(b * h * h - w * 1000000) <= h * h

C2_BmiIsCurrent ==
    (pc = "ready" /\ profile.personal_info.height_cm # None
                  /\ profile.personal_info.weight_kg # None) =>
        /\ profile.health_metrics.bmi # None
        /\ IsRoundedBmi(profile.health_metrics.bmi.num,
                        profile.personal_info.height_cm.num,
                        profile.personal_info.weight_kg.num)

Derived == {<<"health_metrics", "bmi">>, <<"health_metrics", "last_updated">>}

\* C3: an update call overwrites exactly the fields whose parameter is
\* provided (non-null) with that parameter; every other field of the profile,
\* except the derived bmi and last_updated, keeps the value it had before.
C3_UpdateFrame ==
    [][updates' = updates + 1 =>
        \A sec \in DOMAIN default_profile : \A leaf \in DOMAIN default_profile[sec] :
            IF sec = SectionOf(call'.op) /\ leaf \in DOMAIN call'.args
                                         /\ call'.args[leaf] # None
            THEN profile'[sec][leaf] = call'.args[leaf]
            ELSE <<sec, leaf>> \in Derived \/ profile'[sec][leaf] = profile[sec][leaf]]_vars

\* A partial update_personal_info(age=...) was applied to a profile whose
\* height is known: the age is the argument, the height is still there.
C3_Witness ==
    /\ pc = "ready"
    /\ call.op = "update_personal_info"
    /\ call.args.age # None
    /\ call.args.height_cm = None
    /\ profile.personal_info.age = call.args.age
    /\ profile.personal_info.height_cm # None

Supplies(doc, sec, leaf) ==
    sec \in DOMAIN doc /\ IsDict(doc[sec]) /\ leaf \in DOMAIN doc[sec]

\* C4: loading any persisted record yields a record with every leaf field of
\* the default record, holding the persisted value where the persisted record
\* supplies the leaf and the default value where it does not, independently
\* per leaf.
C4_LoadDeepMerges ==
    (pc = "ready" /\ file.kind = "json" /\ IsDict(file.doc)) =>
        /\ DOMAIN profile = DOMAIN default_profile
        /\ \A sec \in DOMAIN default_profile :
            /\ IsDict(profile[sec])
            /\ DOMAIN profile[sec] = DOMAIN default_profile[sec]
            /\ \A leaf \in DOMAIN default_profile[sec] :
                profile[sec][leaf] = IF Supplies(file.doc, sec, leaf)
                                     THEN file.doc[sec][leaf]
                                     ELSE default_profile[sec][leaf]

ReadFails(f) ==
    f.kind \in {"unreadable", "invalid"} \/ (f.kind = "json" /\ ~IsDict(f.doc))

\* C5: load never raises to the caller; when reading the persisted record
\* fails (unreadable file, invalid JSON, top-level value that is no object)
\* the profile is exactly the default record.
C5_FailedLoadGivesDefault ==
    (pc = "ready" /\ call.op = "__init__") =>
        /\ ~ret.raised
        /\ ReadFails(file) => profile = default_profile

\* The stored value parsed but is no object, and the profile is the default
C5_Witness ==
    /\ pc = "ready"
    /\ call.op = "__init__"
    /\ file.kind = "json"
    /\ ~IsDict(file.doc)
    /\ ~ret.raised
    /\ profile = default_profile

\* C6: health_metrics.last_updated is the timestamp of the most recent
\* persist that succeeded; a persist that fails leaves it unchanged.
C6_LastUpdatedIsLastSuccess ==
    pc = "ready" => profile.health_metrics.last_updated = lastSuccess

\* C7: every update call makes exactly one persist attempt, which on success
\* stores the full record; the call returns normally and the profile holds
\* the provided values whether or not the persist succeeded.
C7_PersistFailureNotRaised ==
    pc = "ready" =>
        /\ saves = updates
        /\ call.op \in UpdateOps =>
            /\ ~ret.raised
            /\ \A leaf \in DOMAIN call.args :
                call.args[leaf] # None => profile[SectionOf(call.op)][leaf] = call.args[leaf]
            /\ call.persist = "ok" => file = [kind |-> "json", doc |-> profile]

\* An update whose persist failed part-way returned with its value in place
C7_Witness ==
    /\ pc = "ready"
    /\ call.op = "update_health_goals"
    /\ call.persist = "write_failed"
    /\ call.args.weight_goal # None
    /\ profile.health_goals.weight_goal = call.args.weight_goal
    /\ file.kind = "invalid"
    /\ ~ret.raised

IsSubstring(needle, hay) ==
    \E i \in 1..(Len(hay) + 1), j \in 0..Len(hay) : SubSeq(hay, i, j) = needle

HasAny(keywords, food) ==
    \E k \in 1..Len(keywords) : IsSubstring(Lower(keywords[k]), Lower(food))

Foods(entries) == [i \in 1..Len(entries) |-> entries[i].food]

InSeq(x, s) == \E i \in 1..Len(s) : s[i] = x

\* C8: a food is in compatible_foods iff its lowercased text contains no
\* allergy and no dietary restriction of the profile as a lowercased
\* substring; a food containing both is in allergen_warnings and in
\* restricted_foods and not in compatible_foods; recommendations is empty.
C8_CompatibleIffNoMatch ==
    (pc = "ready" /\ call.op = "analyze_diet_compatibility") =>
        LET allergies == profile.medical_history.allergies.list
            restrictions == profile.medical_history.dietary_restrictions.list
            food_items == call.args.food_items
            Clean(food) == ~HasAny(allergies, food) /\ ~HasAny(restrictions, food)
        IN  /\ ret.value.compatible_foods = SelectSeq(food_items, Clean)
            /\ \A i \in 1..Len(food_items) :
                (HasAny(allergies, food_items[i]) /\ HasAny(restrictions, food_items[i])) =>
                    /\ InSeq(food_items[i], Foods(ret.value.allergen_warnings))
                    /\ InSeq(food_items[i], Foods(ret.value.restricted_foods))
                    /\ ~InSeq(food_items[i], ret.value.compatible_foods)
            /\ ret.value.recommendations = <<>>

\* A food list with one food in both flagged buckets and one compatible food
C8_Witness ==
    /\ pc = "ready"
    /\ call.op = "analyze_diet_compatibility"
    /\ Len(call.args.food_items) = 2
    /\ Len(ret.value.compatible_foods) = 1
    /\ Len(ret.value.allergen_warnings) = 1
    /\ Len(ret.value.restricted_foods) = 1
    /\ ret.value.allergen_warnings[1].food = ret.value.restricted_foods[1].food

\* The first keyword, in the profile's order, that the food contains
FirstIn(keywords, food) ==
    keywords[CHOOSE k \in 1..Len(keywords) :
        /\ IsSubstring(Lower(keywords[k]), Lower(food))
        /\ \A j \in 1..(k - 1) : ~IsSubstring(Lower(keywords[j]), Lower(food))]

\* entries is, in input order, one entry per food that contains a keyword,
\* annotated with the first keyword it contains
FirstMatchBucket(entries, food_items, keywords) ==
    LET Hit(food) == HasAny(keywords, food)
        flagged == SelectSeq(food_items, Hit)
    IN  /\ Len(entries) = Len(flagged)
        /\ \A i \in 1..Len(flagged) :
            /\ entries[i].food = flagged[i]
            /\ entries[i].what = FirstIn(keywords, flagged[i])

\* C9: each input food contributes at most one entry to allergen_warnings,
\* annotated with the first allergy in the profile's order that its text
\* contains, and independently at most one entry to restricted_foods,
\* annotated with the first matching restriction; the entries of each bucket
\* keep the order of the input foods.
C9_FirstMatchWins ==
    (pc = "ready" /\ call.op = "analyze_diet_compatibility") =>
        /\ FirstMatchBucket(ret.value.allergen_warnings, call.args.food_items,
                            profile.medical_history.allergies.list)
        /\ FirstMatchBucket(ret.value.restricted_foods, call.args.food_items,
                            profile.medical_history.dietary_restrictions.list)

\* A food that contains both allergies of the profile is flagged once, with
\* the first of them
C9_Witness ==
    /\ pc = "ready"
    /\ call.op = "analyze_diet_compatibility"
    /\ Len(call.args.food_items) = 2
    /\ LET allergies == profile.medical_history.allergies.list IN
        /\ Len(allergies) = 2
        /\ allergies[1] # allergies[2]
        /\ \A k \in 1..2 : IsSubstring(Lower(allergies[k]), Lower(call.args.food_items[1]))
        /\ Len(ret.value.allergen_warnings) >= 1
        /\ ret.value.allergen_warnings[1].what = allergies[1]

\* The lines of the summary, in order, and the field each one shows
FieldOrder ==
    << <<"Age", "personal_info", "age">>,
       <<"Gender", "personal_info", "gender">>,
       <<"Height", "personal_info", "height_cm">>,
       <<"Weight", "personal_info", "weight_kg">>,
       <<"BMI", "health_metrics", "bmi">>,
       <<"Allergies", "medical_history", "allergies">>,
       <<"Chronic Conditions", "medical_history", "chronic_conditions">>,
       <<"Medications", "medical_history", "medications">>,
       <<"Dietary Restrictions", "medical_history", "dietary_restrictions">>,
       <<"Weight Goal", "health_goals", "weight_goal">>,
       <<"Activity Level", "health_goals", "activity_level">>,
       <<"Primary Goal", "health_goals", "primary_goal">> >>

NonEmpty(v) == v # None /\ v # List(<<>>)

\* C10: summary() has a line for a field iff the field is non-null and
\* non-empty, the lines follow the fixed order age, gender, height, weight,
\* BMI, allergies, chronic conditions, medications, dietary restrictions,
\* weight goal, activity level, primary goal, and the activity-level and
\* primary-goal lines are always present.
C10_SummaryLines ==
    (pc = "ready" /\ call.op = "get_profile_summary") =>
        LET Present(f) == NonEmpty(profile[f[2]][f[3]])
            expected == SelectSeq(FieldOrder, Present)
        IN  /\ "lines" \in DOMAIN ret.value
            /\ Len(ret.value.lines) = Len(expected)
            /\ \A i \in 1..Len(expected) : ret.value.lines[i].label = expected[i][1]
            /\ \E i \in 1..Len(ret.value.lines) : ret.value.lines[i].label = "Activity Level"
            /\ \E i \in 1..Len(ret.value.lines) : ret.value.lines[i].label = "Primary Goal"

\* The summary of a profile with some fields known and some not
C10_Witness ==
    /\ pc = "ready"
    /\ call.op = "get_profile_summary"
    /\ profile.personal_info.age = None
    /\ profile.personal_info.height_cm # None
    /\ profile.medical_history.allergies = List(<<>>)
    /\ profile.health_goals.activity_level = default_profile.health_goals.activity_level
    /\ "lines" \in DOMAIN ret.value
    /\ ret.value.lines[1].label = "Height"

FreshDefault == pc = "ready" /\ updates = 0 /\ profile = default_profile

\* C11 (as claimed): summary() returns the "No health information
\* available" sentinel for a freshly defaulted profile on which no update
\* has been applied.
C11_FreshSummaryIsSentinel ==
    (FreshDefault /\ call.op = "get_profile_summary") => ret.value = NoInformation

\* C11 (amended): summary() never returns the sentinel; for a freshly
\* defaulted profile on which no update has been applied it returns exactly
\* the two lines Activity Level: moderate and Primary Goal: maintain_health.
C11_FreshSummaryShowsDefaults ==
    (pc = "ready" /\ call.op = "get_profile_summary") =>
        /\ ret.value # NoInformation
        /\ FreshDefault =>
            ret.value = [lines |-> <<Line("Activity Level", Str("moderate")),
                                     Line("Primary Goal", Str("maintain_health"))>>]

\* The summary of a fresh default profile has been taken
C11_Witness ==
    /\ FreshDefault
    /\ file.kind = "absent"
    /\ call.op = "get_profile_summary"
    /\ "lines" \in DOMAIN ret.value
    /\ Len(ret.value.lines) = 2

\* C13: when the persist that follows the last update succeeded, a new
\* HealthProfile constructed from the same file holds a record equal to the
\* persisting session's in-memory record in every field.
C13_RoundTrip ==
    (pc = "ready" /\ call.op = "reopen" /\ call.after.op \in UpdateOps
                  /\ call.after.persist = "ok") =>
        /\ ~ret.raised
        /\ ret.value = profile

\* A record with updated personal, medical and derived fields was persisted
\* and loaded again
C13_Witness ==
    /\ pc = "ready"
    /\ call.op = "reopen"
    /\ call.after.op = "update_medical_history"
    /\ call.after.persist = "ok"
    /\ profile.medical_history.allergies # List(<<>>)
    /\ profile.personal_info.height_cm # None
    /\ profile.health_metrics.bmi # None
    /\ profile.health_metrics.last_updated = Num(clock - 1)
    /\ ret.value = profile

IsUserMessage(m) == m.role = "user"

\* C12: a chat turn in which the model call fails keeps every message the
\* conversation already held, in order, followed by the user's message that was
\* being asked; it records no assistant message, raises nothing, leaves the
\* saved chats alone and leaves the session ready for a further query.
C12_FailedChatPreservesConversation ==
    [][(call'.op = "chat" /\ call'.outcome # "ok") =>
          /\ Len(current_conversation') = Len(current_conversation) + 1
          /\ SubSeq(current_conversation', 1, Len(current_conversation)) = current_conversation
          /\ current_conversation'[Len(current_conversation')] = call'.messages[2]
          /\ IsUserMessage(current_conversation'[Len(current_conversation')])
          /\ chat_history' = chat_history
          /\ ~ret'.raised
          /\ ret'.error
          /\ pc' = "ready"]_vars

\* A query failed, the user asked again and the second query was answered
C12_Witness ==
    /\ call.op = "chat"
    /\ call.outcome = "ok"
    /\ Len(current_conversation) = 3
    /\ IsUserMessage(current_conversation[1])
    /\ IsUserMessage(current_conversation[2])
    /\ current_conversation[3] = [role |-> "assistant", content |-> <<"h", "i">>]

====
